---- MODULE Spec2Model ----
(***************************************************************************)
(* ObjectsClient (src/client.py): a facade over an S3-compatible storage   *)
(* client.  The state is the client's two fields (config, _s3), the        *)
(* storage service the handle talks to (store), and the record of the most *)
(* recent public call (last): its arguments, the collaborator requests it  *)
(* issued, the collaborator's reply and what the call returned or raised.  *)
(*                                                                         *)
(* Text (paths, keys, prefixes, etags) is a sequence of character codes,   *)
(* so that basename, prefix tests, quote stripping and the service's       *)
(* lexicographic listing order are computed.  Optional[T] is a sequence of *)
(* length 0 (None) or 1.                                                   *)
(***************************************************************************)
EXTENDS Integers, Sequences, FiniteSets, TLC

VARIABLES config, s3, store, last

vars == <<config, s3, store, last>>

----------------------------------------------------------------------------
(* Bounds and program constants *)

\* Number of objects "00001", "00002", ... already in a large bucket.
BulkN == 1000

DEFAULT_ENDPOINT == "https://s3.nevaobjects.id"
DEFAULT_EXPIRY == 86400
DEFAULT_MAX_KEYS == 1000

Slash == 47
DQuote == 34
Zero == 48

None == << >>
Some(x) == <<x>>

\* Python truthiness of an Optional[str]: None and "" are falsy.
TruthyStr(opt) == opt # None /\ opt[1] # << >>

\* Python truthiness of an Optional[dict] (a dict is a set of <<key, value>>).
TruthyDict(opt) == opt # None /\ opt[1] # {}

Min(a, b) == IF a <= b THEN a ELSE b

----------------------------------------------------------------------------
(* Input domains *)

Buckets == {"photos", "other"}

\* "a", "b"
KeyA == <<97>>
KeyB == <<98>>
Keys == {KeyA, KeyB}

\* "a", "d/b", "d/"
LocalPaths == {<<97>>, <<100, 47, 98>>, <<100, 47>>}

ObjectKeyInputs == {None, Some(<< >>), Some(KeyB)}
ExtraArgsInputs == {None, Some({<<"ContentType", "image/jpeg">>})}
PrefixInputs == {<< >>, KeyA}
MaxKeysInputs == {0, 1, DEFAULT_MAX_KEYS}
ExpiresInputs == {None, Some(0), Some(60)}
BulkChoices == {0, BulkN - 1, BulkN}

----------------------------------------------------------------------------
(* Text helpers *)

HasPrefix(s, p) == Len(p) <= Len(s) /\ SubSeq(s, 1, Len(p)) = p

\* Lexicographic (code point) order, the order an S3 listing uses.
RECURSIVE LexLess(_, _)
LexLess(s, t) ==
    IF s = << >> THEN t # << >>
    ELSE IF t = << >> THEN FALSE
    ELSE IF s[1] # t[1] THEN s[1] < t[1]
    ELSE LexLess(Tail(s), Tail(t))

RECURSIVE SortKeys(_)
SortKeys(S) ==
    IF S = {} THEN << >>
    ELSE LET m == CHOOSE x \in S : \A y \in S \ {x} : LexLess(x, y)
         IN  <<m>> \o SortKeys(S \ {m})

\* os.path.basename: what follows the last "/".
Basename(p) ==
    LET idx == {i \in 1..Len(p) : p[i] = Slash}
    IN  IF idx = {} THEN p
        ELSE LET m == CHOOSE i \in idx : \A j \in idx : j <= i
             IN  SubSeq(p, m + 1, Len(p))

\* str.strip('"'): drops every leading and trailing double quote.
RECURSIVE LStrip(_)
LStrip(s) == IF s # << >> /\ s[1] = DQuote THEN LStrip(Tail(s)) ELSE s

RECURSIVE RStrip(_)
RStrip(s) ==
    IF s # << >> /\ s[Len(s)] = DQuote THEN RStrip(SubSeq(s, 1, Len(s) - 1)) ELSE s

Strip(s) == RStrip(LStrip(s))

\* dict.get(k, default) on a mapping represented as a record.
EmptyDict == << >>
Get(d, k, default) == IF k \in DOMAIN d THEN d[k] ELSE default

----------------------------------------------------------------------------
(* The storage collaborator: what self._s3 answers to the five calls.      *)
(* store[b] is bucket b: `bulk` objects "00001".."0nnnn" that were there   *)
(* before the client was built, and `keys`, the other objects.             *)

BulkKey(i) ==
    <<Zero, Zero + ((i \div 1000) % 10), Zero + ((i \div 100) % 10),
      Zero + ((i \div 10) % 10), Zero + (i % 10)>>

BulkAll == [i \in 1..BulkN |-> BulkKey(i)]

\* The first n bulk keys that start with prefix p, tabulated once.
BulkMatching ==
    [n \in BulkChoices, p \in PrefixInputs |->
        SelectSeq(SubSeq(BulkAll, 1, n), LAMBDA k : HasPrefix(k, p))]

\* The keys of a bucket that start with prefix p, in listing order (the keys
\* of Keys sort after "0...").
Matching(b, p) ==
    BulkMatching[b.bulk, p]
        \o SelectSeq(SortKeys(b.keys), LAMBDA k : HasPrefix(k, p))

\* One entry of a list_objects_v2 response; the service quotes the ETag.
Entry(k) ==
    [Key |-> k, Size |-> Len(k), LastModified |-> 10 * Len(k) + 7,
     ETag |-> <<DQuote>> \o k \o <<DQuote>>]

\* list_objects_v2: the first MaxKeys keys that start with Prefix, in key
\* order; a response with no match carries no "Contents" member.
ListResponse(st, req) ==
    LET matching == Matching(st[req.Bucket], req.Prefix)
        n        == Min(req.MaxKeys, Len(matching))
    IN  IF n = 0
        THEN [KeyCount |-> 0, IsTruncated |-> FALSE]
        ELSE [KeyCount |-> n, IsTruncated |-> n < Len(matching),
              Contents |-> [i \in 1..n |-> Entry(matching[i])]]

PresignedUrl(req) ==
    [endpoint |-> s3.endpoint_url, bucket |-> req.Params.Bucket,
     key |-> req.Params.Key, expires |-> req.ExpiresIn,
     signature_version |-> s3.signature_version]

\* The "response" member of a ClientError.
ErrAccessDenied == [Error |-> [Code |-> "AccessDenied", Message |-> "Access Denied"]]
Err404          == [Error |-> [Code |-> "404", Message |-> "Not Found"]]
ErrNoSuchKey    == [Error |-> [Code |-> "NoSuchKey", Message |-> "The specified key does not exist."]]
ErrNoCode       == [Error |-> [Message |-> "Service unavailable"]]
ErrNoMessage    == [Error |-> [Code |-> "InternalError"]]
ErrNoError      == [ResponseMetadata |-> [HTTPStatusCode |-> 500]]

GeneralErrors  == {ErrAccessDenied, ErrNoCode, ErrNoMessage, ErrNoError}
NotFoundErrors == {Err404, ErrNoSuchKey}

Ok(body) == [ok |-> TRUE, body |-> body]
ClientError(response) == [ok |-> FALSE, response |-> response]

HasObject(st, bucket, key) == key \in st[bucket].keys

\* The replies the collaborator can give to a request in store state st.
CollabReplies(st, req) ==
    LET failures == {ClientError(r) : r \in GeneralErrors}
    IN  CASE req.api = "upload_file" -> {Ok(None)} \cup failures
          [] req.api = "list_objects_v2" -> {Ok(ListResponse(st, req))} \cup failures
          [] req.api = "generate_presigned_url" -> {Ok(PresignedUrl(req))} \cup failures
          [] req.api = "delete_object" -> {Ok(None)} \cup failures
          [] req.api = "head_object" ->
                (IF HasObject(st, req.Bucket, req.Key)
                 THEN {Ok(None)}
                 ELSE {ClientError(r) : r \in NotFoundErrors}) \cup failures

\* The store after the collaborator served the request with that reply.
CollabApply(st, req, reply) ==
    IF ~reply.ok THEN st
    ELSE CASE req.api = "upload_file" ->
                [st EXCEPT ![req.Bucket].keys = @ \cup {req.Key}]
           [] req.api = "delete_object" ->
                [st EXCEPT ![req.Bucket].keys = @ \ {req.Key}]
           [] OTHER -> st

----------------------------------------------------------------------------
(* ObjectsClient: construction and private helpers *)

\* ObjectsConfig as built by the caller: the bucket and the expiry vary here.
ObjectsConfig(bucket, default_expiry) ==
    [access_key |-> "AK", secret_key |-> "SK", bucket |-> bucket,
     endpoint |-> DEFAULT_ENDPOINT, default_expiry |-> default_expiry,
     extra_boto_config |-> EmptyDict]

\* _build_client: the handle is configured from the config once.
BuildClient(cfg) ==
    [service |-> "s3", endpoint_url |-> cfg.endpoint,
     aws_access_key_id |-> cfg.access_key,
     aws_secret_access_key |-> cfg.secret_key,
     signature_version |-> "s3v4", addressing_style |-> "path",
     extra |-> cfg.extra_boto_config]

\* _parse_client_error: (code, message) with defaults for absent members.
ParseClientError(response) ==
    LET resp == Get(response, "Error", EmptyDict)
    IN  <<Get(resp, "Code", "Unknown"), Get(resp, "Message", "(no message)")>>

\* ObjectsError.__init__ and its subclasses: message, code, original.
Raise(type, text, subject, response) ==
    LET parsed == ParseClientError(response)
    IN  [kind |-> "raise",
         exc |-> [type |-> type,
                  message |-> [text |-> text, subject |-> subject, detail |-> parsed[2]],
                  code |-> parsed[1],
                  original |-> Some(response)]]

\* An exception that is not of the ObjectsError hierarchy.
RaiseBuiltin(type, text, subject) ==
    [kind |-> "raise",
     exc |-> [type |-> type,
              message |-> [text |-> text, subject |-> subject, detail |-> ""],
              code |-> "", original |-> None]]

Return(value) == [kind |-> "return", value |-> value]

\* str(int): the decimal digits.
RECURSIVE Str(_)
Str(n) == IF n < 10 THEN <<Zero + n>> ELSE Str(n \div 10) \o <<Zero + (n % 10)>>

\* Mutant: a failed request is tried a second time.
RequestsIssued_Retry(req, reply) == IF reply.ok THEN <<req>> ELSE <<req, req>>

\* One try block issues its request once; an except clause never re-issues it.
RequestsIssued(req, reply) == <<req>>

----------------------------------------------------------------------------
(* upload *)

\* Mutant: the isfile guard is lost.
FileMissing_Never(isfile) == FALSE

FileMissing(isfile) == ~isfile

\* Mutant: the default key is the whole path, not its base name.
UploadKey_FullPath(local_path, object_key) ==
    IF TruthyStr(object_key) THEN object_key[1] ELSE local_path

UploadKey(local_path, object_key) ==
    IF TruthyStr(object_key) THEN object_key[1] ELSE Basename(local_path)

UploadRequest(local_path, object_key, extra_args) ==
    [api |-> "upload_file", Filename |-> local_path, Bucket |-> config.bucket,
     Key |-> UploadKey(local_path, object_key),
     ExtraArgs |-> IF TruthyDict(extra_args) THEN extra_args[1] ELSE {}]

UploadOutcome(local_path, req, reply) ==
    IF reply.ok THEN Return(req.Key)
    ELSE Raise("UploadError", "Upload failed for '{}': {}", Some(local_path),
               reply.response)

\* os.path.isfile can only hold of a path that names something.
IsFileOutcomes(local_path) ==
    IF local_path = << >> \/ local_path[Len(local_path)] = Slash
    THEN {FALSE} ELSE BOOLEAN

Upload(local_path, object_key, extra_args, isfile) ==
    LET args == [local_path |-> local_path, object_key |-> object_key,
                 extra_args |-> extra_args]
    IN  IF FileMissing(isfile)
        THEN /\ last' = [op |-> "upload", args |-> args, isfile |-> isfile,
                         requests |-> << >>, reply |-> None,
                         outcome |-> RaiseBuiltin("FileNotFoundError",
                                                  "File not found: {}",
                                                  Some(local_path))]
             /\ UNCHANGED <<config, s3, store>>
        ELSE LET req == UploadRequest(local_path, object_key, extra_args)
             IN  \E reply \in CollabReplies(store, req) :
                    /\ store' = CollabApply(store, req, reply)
                    /\ last' = [op |-> "upload", args |-> args, isfile |-> isfile,
                                requests |-> RequestsIssued(req, reply),
                                reply |-> Some(reply),
                                outcome |-> UploadOutcome(local_path, req, reply)]
                    /\ UNCHANGED <<config, s3>>

----------------------------------------------------------------------------
(* list, list_keys *)

ListRequest(prefix, max_keys) ==
    [api |-> "list_objects_v2", Bucket |-> config.bucket, Prefix |-> prefix,
     MaxKeys |-> max_keys]

ObjectInfo(obj) ==
    [key |-> obj.Key, size |-> obj.Size,
     last_modified |-> Str(obj.LastModified),
     etag |-> Strip(Get(obj, "ETag", << >>))]

\* Mutant: response["Contents"] instead of response.get("Contents", []).
ListOutcome_NoDefault(reply) ==
    IF reply.ok
    THEN IF "Contents" \notin DOMAIN reply.body
         THEN RaiseBuiltin("KeyError", "'Contents'", None)
         ELSE Return([i \in 1..Len(reply.body.Contents) |->
                        ObjectInfo(reply.body.Contents[i])])
    ELSE Raise("ListError", "Failed to list objects: {}", None, reply.response)

ListOutcome(reply) ==
    IF reply.ok
    THEN LET contents == Get(reply.body, "Contents", << >>)
         IN  Return([i \in 1..Len(contents) |-> ObjectInfo(contents[i])])
    ELSE Raise("ListError", "Failed to list objects: {}", None, reply.response)

List(prefix, max_keys) ==
    LET req == ListRequest(prefix, max_keys)
    IN  \E reply \in CollabReplies(store, req) :
           /\ store' = CollabApply(store, req, reply)
           /\ last' = [op |-> "list",
                       args |-> [prefix |-> prefix, max_keys |-> max_keys],
                       requests |-> RequestsIssued(req, reply),
                       reply |-> Some(reply),
                       outcome |-> ListOutcome(reply)]
           /\ UNCHANGED <<config, s3>>

\* Mutant: list_keys asks for a single key.
ListKeysRequest_Capped(prefix) == ListRequest(prefix, 1)

\* Mutant: list_keys calls self.list() and drops its prefix.
ListKeysRequest_NoPrefix(prefix) == ListRequest(<< >>, DEFAULT_MAX_KEYS)

\* list_keys calls self.list(prefix=prefix): max_keys takes its default.
ListKeysRequest(prefix) == ListRequest(prefix, DEFAULT_MAX_KEYS)

\* [obj.key for obj in ...]; an error raised by list propagates unchanged.
ListKeysOutcome(listed) ==
    IF listed.kind = "return"
    THEN Return([i \in 1..Len(listed.value) |-> listed.value[i].key])
    ELSE listed

ListKeys(prefix) ==
    LET req == ListKeysRequest(prefix)
    IN  \E reply \in CollabReplies(store, req) :
           /\ store' = CollabApply(store, req, reply)
           /\ last' = [op |-> "list_keys", args |-> [prefix |-> prefix],
                       requests |-> RequestsIssued(req, reply),
                       reply |-> Some(reply),
                       outcome |-> ListKeysOutcome(ListOutcome(reply))]
           /\ UNCHANGED <<config, s3>>

----------------------------------------------------------------------------
(* get_download_url *)

\* Mutant: "expires_in or default_expiry", which treats 0 as omitted.
Expiry_Or(expires_in) ==
    IF expires_in # None /\ expires_in[1] # 0 THEN expires_in[1]
    ELSE config.default_expiry

Expiry(expires_in) ==
    IF expires_in # None THEN expires_in[1] ELSE config.default_expiry

UrlRequest(object_key, expires_in) ==
    [api |-> "generate_presigned_url", ClientMethod |-> "get_object",
     Params |-> [Bucket |-> config.bucket, Key |-> object_key],
     ExpiresIn |-> Expiry(expires_in)]

UrlOutcome(object_key, reply) ==
    IF reply.ok THEN Return(reply.body)
    ELSE Raise("DownloadError", "Failed to generate URL for '{}': {}",
               Some(object_key), reply.response)

GetDownloadUrl(object_key, expires_in) ==
    LET req == UrlRequest(object_key, expires_in)
    IN  \E reply \in CollabReplies(store, req) :
           /\ store' = CollabApply(store, req, reply)
           /\ last' = [op |-> "get_download_url",
                       args |-> [object_key |-> object_key, expires_in |-> expires_in],
                       requests |-> RequestsIssued(req, reply),
                       reply |-> Some(reply),
                       outcome |-> UrlOutcome(object_key, reply)]
           /\ UNCHANGED <<config, s3>>

----------------------------------------------------------------------------
(* delete *)

\* Mutant: the bucket name is written out instead of read from the config.
DeleteRequest_FixedBucket(object_key) ==
    [api |-> "delete_object", Bucket |-> "photos", Key |-> object_key]

DeleteRequest(object_key) ==
    [api |-> "delete_object", Bucket |-> config.bucket, Key |-> object_key]

DeleteOutcome(object_key, reply) ==
    IF reply.ok THEN Return(None)
    ELSE Raise("ObjectsError", "Failed to delete '{}': {}", Some(object_key),
               reply.response)

Delete(object_key) ==
    LET req == DeleteRequest(object_key)
    IN  \E reply \in CollabReplies(store, req) :
           /\ store' = CollabApply(store, req, reply)
           /\ last' = [op |-> "delete", args |-> [object_key |-> object_key],
                       requests |-> RequestsIssued(req, reply),
                       reply |-> Some(reply),
                       outcome |-> DeleteOutcome(object_key, reply)]
           /\ UNCHANGED <<config, s3>>

----------------------------------------------------------------------------
(* object_exists *)

ExistsRequest(object_key) ==
    [api |-> "head_object", Bucket |-> config.bucket, Key |-> object_key]

\* exc.response["Error"]["Code"] is a plain subscript: an absent member is a
\* KeyError raised inside the except clause, before _parse_client_error runs.
ExistsOutcome(object_key, reply) ==
    IF reply.ok THEN Return(TRUE)
    ELSE IF "Error" \notin DOMAIN reply.response
         THEN RaiseBuiltin("KeyError", "'Error'", None)
    ELSE IF "Code" \notin DOMAIN reply.response.Error
         THEN RaiseBuiltin("KeyError", "'Code'", None)
    ELSE IF reply.response.Error.Code \in {"404", "NoSuchKey"}
         THEN Return(FALSE)
    ELSE Raise("ObjectsError", "Failed to check existence of '{}': {}",
               Some(object_key), reply.response)

ObjectExists(object_key) ==
    LET req == ExistsRequest(object_key)
    IN  \E reply \in CollabReplies(store, req) :
           /\ store' = CollabApply(store, req, reply)
           /\ last' = [op |-> "object_exists", args |-> [object_key |-> object_key],
                       requests |-> RequestsIssued(req, reply),
                       reply |-> Some(reply),
                       outcome |-> ExistsOutcome(object_key, reply)]
           /\ UNCHANGED <<config, s3>>

----------------------------------------------------------------------------
(* The specification *)

ConfigInputs ==
    {ObjectsConfig("photos", DEFAULT_EXPIRY), ObjectsConfig("other", 3600)}

Init ==
    /\ config \in ConfigInputs
    /\ s3 = BuildClient(config)
    /\ \E n \in BulkChoices, ks \in SUBSET Keys :
          store = [b \in Buckets |->
                     IF b = config.bucket THEN [bulk |-> n, keys |-> ks]
                     ELSE [bulk |-> 0, keys |-> {KeyA}]]
    /\ last = [op |-> "init", requests |-> << >>]

Next ==
    \/ \E p \in LocalPaths, k \in ObjectKeyInputs, x \in ExtraArgsInputs :
          \E isfile \in IsFileOutcomes(p) : Upload(p, k, x, isfile)
    \/ \E p \in PrefixInputs, m \in MaxKeysInputs : List(p, m)
    \/ \E p \in PrefixInputs : ListKeys(p)
    \/ \E k \in Keys, e \in ExpiresInputs : GetDownloadUrl(k, e)
    \/ \E k \in Keys : Delete(k)
    \/ \E k \in Keys : ObjectExists(k)

Spec == Init /\ [][Next]_vars

----------------------------------------------------------------------------
(* Reading the record of the last call *)

Called(op) == last.op = op
Returned(l) == l.outcome.kind = "return"
RaisedType(l, type) == l.outcome.kind = "raise" /\ l.outcome.exc.type = type
ReplyOk(l) == l.reply # None /\ l.reply[1].ok
ReplyFailed(l) == l.reply # None /\ ~l.reply[1].ok

ErrorHierarchy == {"ObjectsError", "UploadError", "DownloadError", "ListError"}

\* The code a collaborator error carries, if it carries one.
HasCode(response) == "Error" \in DOMAIN response /\ "Code" \in DOMAIN response.Error
IsNotFound(response) ==
    HasCode(response) /\ response.Error.Code \in {"404", "NoSuchKey"}

RequestBucket(req) ==
    IF req.api = "generate_presigned_url" THEN req.Params.Bucket ELSE req.Bucket

InSeq(x, seq) == \E i \in 1..Len(seq) : seq[i] = x

----------------------------------------------------------------------------
(* C1 *)

\* C1 (as claimed): an upload of a regular file that the collaborator accepts
\* returns the key it forwarded, which is object_key whenever one was supplied
\* and the base name of local_path when it was omitted.
C1_Original ==
    (Called("upload") /\ last.isfile /\ ReplyOk(last)) =>
        /\ Len(last.requests) = 1
        /\ last.outcome = Return(last.requests[1].Key)
        /\ last.outcome.value =
              IF last.args.object_key # None THEN last.args.object_key[1]
              ELSE Basename(last.args.local_path)

\* C1 (amended): an upload of a regular file that the collaborator accepts
\* returns the key it forwarded, which is object_key whenever a non-empty one
\* was supplied and the base name of local_path when object_key was omitted or
\* is the empty string.
C1_Amended ==
    (Called("upload") /\ last.isfile /\ ReplyOk(last)) =>
        /\ Len(last.requests) = 1
        /\ last.requests[1].api = "upload_file"
        /\ last.outcome = Return(last.requests[1].Key)
        /\ last.outcome.value =
              IF last.args.object_key # None /\ last.args.object_key[1] # << >>
              THEN last.args.object_key[1]
              ELSE Basename(last.args.local_path)

\* "d/b" uploaded with no key: "b" is returned and is in the bucket.
C1_Witness ==
    /\ Called("upload") /\ last.isfile /\ ReplyOk(last)
    /\ last.args.local_path = <<100, 47, 98>>
    /\ last.args.object_key = None
    /\ last.outcome = Return(KeyB)
    /\ KeyB \in store[config.bucket].keys

----------------------------------------------------------------------------
(* C2 *)

\* C2: an upload of a path that is not a regular file raises FileNotFoundError,
\* which is not of the ObjectsError hierarchy, issues no collaborator request
\* and leaves the store as it was.
C2_Theorem ==
    [][(last'.op = "upload" /\ ~last'.isfile) =>
          /\ RaisedType(last', "FileNotFoundError")
          /\ last'.outcome.exc.type \notin ErrorHierarchy
          /\ last'.requests = << >>
          /\ store' = store]_vars

\* "d/" (never a regular file) was uploaded and the call raised.
C2_Witness ==
    /\ Called("upload") /\ ~last.isfile
    /\ last.args.local_path = <<100, 47>>
    /\ RaisedType(last, "FileNotFoundError")
    /\ last.requests = << >>

----------------------------------------------------------------------------
(* C3 *)

\* C3: object_exists returns TRUE when the probe succeeds, FALSE when it fails
\* with code 404 or NoSuchKey, and raises ObjectsError on every other
\* collaborator error, an error without a code included.
C3_Original ==
    Called("object_exists") =>
        IF ReplyOk(last) THEN last.outcome = Return(TRUE)
        ELSE IF IsNotFound(last.reply[1].response) THEN last.outcome = Return(FALSE)
        ELSE RaisedType(last, "ObjectsError")

----------------------------------------------------------------------------
(* C4 *)

TypedError(op) ==
    CASE op = "upload" -> "UploadError"
      [] op \in {"list", "list_keys"} -> "ListError"
      [] op = "get_download_url" -> "DownloadError"
      [] op \in {"delete", "object_exists"} -> "ObjectsError"

\* C4: every collaborator failure is re-raised as the operation's typed error
\* carrying the collaborator's code (delete: the message names the key); the
\* one failure turned into a result is not-found in object_exists.
C4_Original ==
    (last.op # "init" /\ ReplyFailed(last)
       /\ ~(Called("object_exists") /\ IsNotFound(last.reply[1].response))) =>
        /\ RaisedType(last, TypedError(last.op))
        /\ HasCode(last.reply[1].response) =>
              last.outcome.exc.code = last.reply[1].response.Error.Code
        /\ Called("delete") =>
              last.outcome.exc.message.subject = Some(last.args.object_key)

----------------------------------------------------------------------------
(* C5 *)

\* A call that returned, directly followed by another call that returned.
UploadThenListKeys ==
    /\ last.op = "upload" /\ Returned(last) /\ last.args.object_key = None
    /\ last'.op = "list_keys" /\ last'.args.prefix = << >> /\ Returned(last')

DeleteThenExists ==
    /\ last.op = "delete" /\ Returned(last)
    /\ last'.op = "object_exists" /\ Returned(last')
    /\ last'.args.object_key = last.args.object_key

\* C5 (as claimed): an upload with no explicit key returns the base name k and
\* the list_keys("") that follows includes k, whatever else the bucket holds;
\* the object_exists(k) that follows a successful delete(k) returns FALSE.
C5_Original ==
    [][/\ UploadThenListKeys =>
            /\ last.outcome.value = Basename(last.args.local_path)
            /\ InSeq(last.outcome.value, last'.outcome.value)
       /\ DeleteThenExists => last'.outcome.value = FALSE]_vars

\* C5 (amended): an upload with no explicit key returns the base name k; the
\* list_keys("") that follows includes k unless the bucket holds at least
\* DEFAULT_MAX_KEYS keys that sort before k, in which case it returns exactly
\* those first DEFAULT_MAX_KEYS keys; the object_exists(k) that follows a
\* successful delete(k) returns FALSE.
C5_Amended ==
    [][/\ UploadThenListKeys =>
            /\ last.outcome.value = Basename(last.args.local_path)
            /\ \/ InSeq(last.outcome.value, last'.outcome.value)
               \/ /\ Len(last'.outcome.value) = DEFAULT_MAX_KEYS
                  /\ \A i \in 1..Len(last'.outcome.value) :
                        LexLess(last'.outcome.value[i], last.outcome.value)
       /\ DeleteThenExists => last'.outcome.value = FALSE]_vars

\* list_keys("") returned DEFAULT_MAX_KEYS keys, the last of them "a": the
\* bucket holds one key fewer than the cap before "a".
C5_Witness ==
    /\ Called("list_keys") /\ last.args.prefix = << >> /\ Returned(last)
    /\ Len(last.outcome.value) = DEFAULT_MAX_KEYS
    /\ last.outcome.value[DEFAULT_MAX_KEYS] = KeyA
    /\ KeyB \in store[config.bucket].keys

----------------------------------------------------------------------------
(* C6 *)

\* What list(prefix) returns in state st when the collaborator answers.
ListReturn(st, prefix) ==
    ListOutcome(Ok(ListResponse(st, ListRequest(prefix, DEFAULT_MAX_KEYS))))

\* C6: list_keys(prefix) returns the keys of the entries list(prefix) returns
\* on the same bucket state: same length, same elements, same order.
C6_Theorem ==
    (Called("list_keys") /\ Returned(last)) =>
        LET listed == ListReturn(store, last.args.prefix)
        IN  /\ Returned([outcome |-> listed])
            /\ Len(last.outcome.value) = Len(listed.value)
            /\ \A i \in 1..Len(listed.value) :
                  last.outcome.value[i] = listed.value[i].key

\* list_keys("a") returned <<"a">> from a bucket that also holds "b".
C6_Witness ==
    /\ Called("list_keys") /\ Returned(last)
    /\ last.args.prefix = KeyA
    /\ last.outcome.value = <<KeyA>>
    /\ store[config.bucket].keys = {KeyA, KeyB}

----------------------------------------------------------------------------
(* C7 *)

\* C7: list(prefix, max_keys) returns whenever the collaborator answers, at
\* most max_keys entries, each key starting with prefix, in the order of the
\* collaborator's Contents; a response without Contents yields the empty
\* sequence, not an error.
C7_Theorem ==
    Called("list") =>
        /\ ReplyOk(last) => Returned(last)
        /\ Returned(last) =>
              LET contents == Get(last.reply[1].body, "Contents", << >>)
              IN  /\ Len(last.outcome.value) <= last.args.max_keys
                  /\ Len(last.outcome.value) = Len(contents)
                  /\ \A i \in 1..Len(contents) :
                        /\ last.outcome.value[i].key = contents[i].Key
                        /\ HasPrefix(last.outcome.value[i].key, last.args.prefix)
                  /\ "Contents" \notin DOMAIN last.reply[1].body =>
                        last.outcome.value = << >>

\* list("", 1) on a bucket with more than one object returned one entry.
C7_Witness ==
    /\ Called("list") /\ Returned(last)
    /\ last.args.max_keys = 1
    /\ last.reply[1].body.IsTruncated
    /\ Len(last.outcome.value) = 1

----------------------------------------------------------------------------
(* C8 *)

\* C8: get_download_url issues one generate_presigned_url request and no
\* head_object probe; the expiry it forwards is config.default_expiry when
\* expires_in is omitted and expires_in itself otherwise, 0 included; the URL
\* the collaborator produces is returned whether or not the key exists.
C8_Theorem ==
    Called("get_download_url") =>
        /\ Len(last.requests) = 1
        /\ last.requests[1].api = "generate_presigned_url"
        /\ last.requests[1].Params.Key = last.args.object_key
        /\ last.requests[1].ExpiresIn =
              IF last.args.expires_in = None THEN config.default_expiry
              ELSE last.args.expires_in[1]
        /\ ReplyOk(last) => last.outcome = Return(last.reply[1].body)

\* A URL with expiry 0 was returned for a key the bucket does not hold, by a
\* client whose default expiry is not 0.
C8_Witness ==
    /\ Called("get_download_url") /\ Returned(last)
    /\ last.args.expires_in = Some(0)
    /\ last.outcome.value.expires = 0
    /\ ~HasObject(store, config.bucket, last.args.object_key)

----------------------------------------------------------------------------
(* C9 *)

\* C9: no call changes the bucket of the configuration, and every request a
\* call issues names that bucket.
C9_Theorem ==
    [][/\ config'.bucket = config.bucket
       /\ \A i \in 1..Len(last'.requests) :
             RequestBucket(last'.requests[i]) = config.bucket]_vars

\* A failed delete by the client built for bucket "other" named that bucket.
C9_Witness ==
    /\ Called("delete") /\ ReplyFailed(last)
    /\ config.bucket = "other"
    /\ RequestBucket(last.requests[1]) = "other"

----------------------------------------------------------------------------
(* C10 *)

RequestCount(l) ==
    IF l.op = "upload" /\ ~l.isfile THEN 0 ELSE 1

\* C10: every call issues exactly one collaborator request (none for an upload
\* of a missing file), also when the request fails, and leaves the
\* configuration and the collaborator handle as they were.
C10_Theorem ==
    [][/\ config' = config
       /\ s3' = s3
       /\ Len(last'.requests) = RequestCount(last')]_vars

\* A listing that failed was attempted once and reported as ListError.
C10_Witness ==
    /\ Called("list") /\ ReplyFailed(last)
    /\ Len(last.requests) = 1
    /\ RaisedType(last, "ListError")

====
